---- MODULE Spec2Model ----
(***************************************************************************)
(* A model of network-tool.py: the vendor command tables (DeviceCommands), *)
(* the output collector (get_command_output), the device fingerprinting    *)
(* (identify_device_type), the command sequencer (execute_commands), the   *)
(* pre/post diff (compare_outputs) and the multi-host driver (config_push).*)
(*                                                                         *)
(* Python strings are modelled as sequences of one-character strings, so   *)
(* that strip(), lower(), startswith(), splitlines() and the regular       *)
(* expressions of the program are computed character by character.         *)
(***************************************************************************)
EXTENDS Integers, Sequences, FiniteSets, TLC

VARIABLES
    classification,  \* DeviceCommands: the device_type argument under test
    profile,         \* DeviceCommands: getter name -> the command it returned
    pre_output,      \* compare_outputs: the pre-check text
    post_output,     \* compare_outputs: the post-check text
    pre_lines,       \* compare_outputs: clean_output(pre_output)
    post_lines,      \* compare_outputs: clean_output(post_output)
    diff,            \* compare_outputs: list(differ.compare(pre_lines, post_lines))
    changes,         \* compare_outputs: the 'added'/'removed'/'changed' lists
    now,             \* time.time(), in tenths of a second
    wire,            \* the chunks the device has emitted that have not arrived
    inbuf,           \* the bytes that have arrived on the channel, unread
    consumed,        \* the bytes get_command_output has read from the channel
    cpc,             \* get_command_output: the statement executed next
    start_time,      \* get_command_output: start_time
    wake,            \* get_command_output: when time.sleep(0.1) returns
    output,          \* get_command_output: output
    device,          \* the device behind the shell: what it answers to each command
    chan,            \* the shell's channel: "none", "open" or "closed"
    late,            \* how many more answers of the device may straggle
    oplog,           \* the sends and receives made on the shell, in order
    swallowed,       \* an exception was caught inside get_command_output
    exc,             \* the exception on its way to a handler ("none": none)
    ipc,             \* identify_device_type: the statement executed next
    probe_output,    \* identify_device_type: output
    version_output,  \* identify_device_type: version_output
    device_type,     \* the value identify_device_type returned
    epc,             \* execute_commands: the statement executed next
    commands,        \* execute_commands: commands
    cmd_i,           \* execute_commands: the position in commands of the loop
    output_data,     \* execute_commands: output_data
    pc,              \* config_push: the statement executed next
    hostname_list,   \* config_push: hostname_list
    host_i,          \* config_push: the position in hostname_list of the loop
    pre_commands,    \* config_push: pre_commands
    config_commands, \* config_push: config_commands
    post_commands,   \* config_push: post_commands
    results,         \* config_push: results
    network,         \* the device that answers under each host name
    attempts,        \* the host names client.connect was called with, in order
    unclosed         \* how many connections finished runs have left open

profVars == <<classification, profile>>
diffVars == <<pre_output, post_output, pre_lines, post_lines, diff, changes>>
chanVars == <<wire, inbuf, consumed>>
collVars == <<now, cpc, start_time, wake, output>>
linkVars == <<device, chan, late, oplog, swallowed, exc>>
idVars == <<ipc, probe_output, version_output, device_type>>
exVars == <<epc, commands, cmd_i, output_data>>
pushVars == <<pc, hostname_list, host_i, pre_commands, config_commands,
              post_commands, results, network, attempts, unclosed>>
engineVars == <<linkVars, idVars, exVars, pushVars>>
vars == <<profVars, diffVars, chanVars, collVars, engineVars>>

\* What the actions of one part of the program leave alone.
notProfile == <<diffVars, chanVars, collVars, engineVars>>
notDiff == <<profVars, chanVars, collVars, engineVars>>
notCollect == <<profVars, diffVars, engineVars>>
notEngine == <<profVars, diffVars, collVars, consumed>>

-----------------------------------------------------------------------------
(* String literals of the program.                                         *)

\* The keys of the command tables and the values identify_device_type returns.
Name ==
    [juniper |-> <<"j", "u", "n", "i", "p", "e", "r">>,
     cisco_ios |-> <<"c", "i", "s", "c", "o", "-", "i", "o", "s">>,
     cisco_nxos |-> <<"c", "i", "s", "c", "o", "-", "n", "x", "o", "s">>,
     arista |-> <<"a", "r", "i", "s", "t", "a">>,
     default |-> <<"d", "e", "f", "a", "u", "l", "t">>,
     unknown |-> <<"u", "n", "k", "n", "o", "w", "n">>,
     juniper_mx |-> <<"j", "u", "n", "i", "p", "e", "r", "-", "m", "x">>,
     juniper_ex |-> <<"j", "u", "n", "i", "p", "e", "r", "-", "e", "x">>,
     juniper_srx |-> <<"j", "u", "n", "i", "p", "e", "r", "-", "s", "r", "x">>,
     juniper_qfx |-> <<"j", "u", "n", "i", "p", "e", "r", "-", "q", "f", "x">>,
     juniper_unknown |-> <<"j", "u", "n", "i", "p", "e", "r", "-", "u", "n", "k", "n", "o", "w", "n">>,
     cisco_ios_asr |-> <<"c", "i", "s", "c", "o", "-", "i", "o", "s", "-", "a", "s", "r">>,
     cisco_ios_isr |-> <<"c", "i", "s", "c", "o", "-", "i", "o", "s", "-", "i", "s", "r">>,
     cisco_ios_csr |-> <<"c", "i", "s", "c", "o", "-", "i", "o", "s", "-", "c", "s", "r">>,
     cisco_ios_catalyst |-> <<"c", "i", "s", "c", "o", "-", "i", "o", "s", "-", "c", "a", "t", "a", "l", "y", "s", "t">>,
     cisco_nxos_unknown |-> <<"c", "i", "s", "c", "o", "-", "n", "x", "o", "s", "-", "u", "n", "k", "n", "o", "w", "n">>,
     arista_dcs |-> <<"a", "r", "i", "s", "t", "a", "-", "d", "c", "s">>]

\* The commands the program sends.
Cmd ==
    [set_cli_screen_length_0 |-> <<"s", "e", "t", " ", "c", "l", "i", " ", "s", "c", "r", "e", "e", "n", "-", "l", "e", "n", "g", "t", "h", " ", "0">>,
     terminal_length_0 |-> <<"t", "e", "r", "m", "i", "n", "a", "l", " ", "l", "e", "n", "g", "t", "h", " ", "0">>,
     configure |-> <<"c", "o", "n", "f", "i", "g", "u", "r", "e">>,
     configure_terminal |-> <<"c", "o", "n", "f", "i", "g", "u", "r", "e", " ", "t", "e", "r", "m", "i", "n", "a", "l">>,
     commit_and_quit |-> <<"c", "o", "m", "m", "i", "t", " ", "a", "n", "d", "-", "q", "u", "i", "t">>,
     end |-> <<"e", "n", "d">>,
     show_version |-> <<"s", "h", "o", "w", " ", "v", "e", "r", "s", "i", "o", "n">>,
     set_ntp |-> <<"s", "e", "t", " ", "n", "t", "p">>,
     conf_t_typed |-> <<" ", "C", "O", "N", "F", " ", "t">>,
     reset |-> <<"r", "e", "s", "e", "t">>]

\* The words the program looks for, and the placeholders it writes.
Word ==
    [syntax_error |-> <<"s", "y", "n", "t", "a", "x", " ", "e", "r", "r", "o", "r">>,
     model |-> <<"M", "o", "d", "e", "l", ":">>,
     set |-> <<"s", "e", "t">>,
     conf |-> <<"c", "o", "n", "f">>,
     mx |-> <<"m", "x">>,
     ex |-> <<"e", "x">>,
     srx |-> <<"s", "r", "x">>,
     qfx |-> <<"q", "f", "x">>,
     cisco_ios |-> <<"c", "i", "s", "c", "o", " ", "i", "o", "s">>,
     ios_software |-> <<"i", "o", "s", " ", "s", "o", "f", "t", "w", "a", "r", "e">>,
     nx_os |-> <<"n", "x", "-", "o", "s">>,
     nexus |-> <<"n", "e", "x", "u", "s">>,
     asr |-> <<"A", "S", "R">>,
     isr |-> <<"I", "S", "R">>,
     csr |-> <<"C", "S", "R">>,
     c |-> <<"C">>,
     dcs |-> <<"D", "C", "S", "-">>,
     hms |-> <<"X", "X", ":", "X", "X", ":", "X", "X">>,
     hms_frac |-> <<"X", "X", ":", "X", "X", ":", "X", "X", ".", "X", "X", "X">>]

\* Texts a device writes, used as inputs.
Said ==
    [model_mx |-> <<"M", "o", "d", "e", "l", ":", " ", "m", "x", "9", "6", "0", "\n">>,
     model_ex |-> <<"M", "o", "d", "e", "l", ":", " ", "e", "x", "4", "2", "0", "0", "\n">>,
     model_upper |-> <<"M", "o", "d", "e", "l", ":", " ", "M", "X", "8", "0", "\r", "\n">>,
     model_empty |-> <<"M", "o", "d", "e", "l", ":", "\n">>,
     hostname |-> <<"H", "o", "s", "t", "n", "a", "m", "e", ":", " ", "r", "1", "\n">>,
     ios |-> <<"C", "i", "s", "c", "o", " ", "I", "O", "S", " ", "S", "o", "f", "t", "w", "a", "r", "e", ",", " ", "C", "3", "7", "5", "0", "\n">>,
     ios_plain |-> <<"i", "o", "s", " ", "s", "o", "f", "t", "w", "a", "r", "e", "\n">>,
     asr_isr |-> <<"I", "S", "R", "4", " ", "A", "S", "R", "1", "\n">>,
     isr_csr |-> <<"C", "S", "R", "1", " ", "I", "S", "R", "4", "\n">>,
     csr |-> <<"C", "S", "R", "1", " ", "C", "9", "\n">>,
     nexus |-> <<"N", "e", "x", "u", "s", " ", "N", "9", "K", "\n">>,
     nxos_lower |-> <<"n", "x", "-", "o", "s", "\n">>,
     arista_dcs |-> <<"A", "r", "i", "s", "t", "a", " ", "D", "C", "S", "-", "7", "\n">>,
     arista_plain |-> <<"a", "r", "i", "s", "t", "a", "\n">>,
     probe_ok |-> <<"o", "k", "\n">>,
     probe_syntax |-> <<"s", "y", "n", "t", "a", "x", " ", "e", "r", "r", "o", "r", "\n">>,
     probe_syntax_upper |-> <<"S", "y", "n", "t", "a", "x", " ", "E", "r", "r", "o", "r", ".", "\n">>,
     probe_invalid |-> <<"%", " ", "I", "n", "v", "a", "l", "i", "d", " ", "i", "n", "p", "u", "t", "\n">>,
     prompt |-> <<"r", "1", ">", " ">>,
     line_ntp_old |-> <<"n", "t", "p", "-", "s", "e", "r", "v", "e", "r", " ", "1", ".", "2", ".", "3", ".", "4">>,
     line_ntp_new |-> <<"n", "t", "p", "-", "s", "e", "r", "v", "e", "r", " ", "5", ".", "6", ".", "7", ".", "8">>,
     line_uptime_0 |-> <<"U", "p", "t", "i", "m", "e", " ", "1", "0", ":", "0", "0", ":", "0", "0">>,
     line_uptime_5 |-> <<"U", "p", "t", "i", "m", "e", " ", "1", "0", ":", "0", "0", ":", "0", "5">>,
     line_clock |-> <<"a", "t", " ", "0", "9", ":", "1", "5", ":", "0", "1", ".", "2", "5", "0">>,
     line_blank |-> <<" ", " ">>]


-----------------------------------------------------------------------------
(* Generic sequence helpers.                                               *)

\* The concatenation of a sequence of sequences.
RECURSIVE Flatten(_)
Flatten(ss) == IF ss = <<>> THEN <<>> ELSE Head(ss) \o Flatten(Tail(ss))

\* All sequences over S of length at most n.
SeqsUpTo(S, n) == UNION {[1..k -> S] : k \in 0..n}

\* dict.get(key, default) on a dict given as a function.
DictGet(dict, key, dflt) == IF key \in DOMAIN dict THEN dict[key] ELSE dflt

-----------------------------------------------------------------------------
(* DeviceCommands: the three vendor tables and their lookups.              *)

PaginationCommands ==
    (Name.juniper :> Cmd.set_cli_screen_length_0) @@
    (Name.cisco_ios :> Cmd.terminal_length_0) @@
    (Name.cisco_nxos :> Cmd.terminal_length_0) @@
    (Name.arista :> Cmd.terminal_length_0) @@
    (Name.default :> Cmd.terminal_length_0)

ConfigModeCommands ==
    (Name.juniper :> Cmd.configure) @@
    (Name.cisco_ios :> Cmd.configure_terminal) @@
    (Name.cisco_nxos :> Cmd.configure_terminal) @@
    (Name.arista :> Cmd.configure_terminal) @@
    (Name.default :> Cmd.configure_terminal)

CommitCommands ==
    (Name.juniper :> Cmd.commit_and_quit) @@
    (Name.cisco_ios :> Cmd.end) @@
    (Name.cisco_nxos :> Cmd.end) @@
    (Name.arista :> Cmd.end) @@
    (Name.default :> Cmd.end)

get_pagination_command(dtype) ==
    DictGet(PaginationCommands, dtype, PaginationCommands[Name.default])

get_config_mode_command(dtype) ==
    DictGet(ConfigModeCommands, dtype, ConfigModeCommands[Name.default])

\* A lookup that forgets the fallback: commands.get(device_type) gives None,
\* rendered here as the empty command.
get_commit_command_nodefault(dtype) ==
    DictGet(CommitCommands, dtype, <<>>)

get_commit_command(dtype) ==
    DictGet(CommitCommands, dtype, CommitCommands[Name.default])

-----------------------------------------------------------------------------
(* Python string operations, character by character.                       *)

\* str.isspace() for one character (ASCII whitespace).
IsSpace(c) == c \in {" ", "\t", "\n", "\r", "\f"}

\* \d for one character.
IsDigit(c) == c \in {"0", "1", "2", "3", "4", "5", "6", "7", "8", "9"}

\* The characters str.splitlines() breaks a line at ("\r\n" counts once).
LineBreaks == {"\n", "\r", "\f"}

\* The elements of a sequence.
Range(s) == {s[i] : i \in DOMAIN s}

\* str.lstrip() / str.rstrip() / str.strip().
RECURSIVE LStrip(_)
LStrip(s) == IF s # <<>> /\ IsSpace(Head(s)) THEN LStrip(Tail(s)) ELSE s

RECURSIVE RStrip(_)
RStrip(s) ==
    IF s # <<>> /\ IsSpace(s[Len(s)]) THEN RStrip(SubSeq(s, 1, Len(s) - 1)) ELSE s

Strip(s) == RStrip(LStrip(s))

\* str.startswith(prefix).
StartsWith(s, prefix) ==
    Len(prefix) <= Len(s) /\ SubSeq(s, 1, Len(prefix)) = prefix

\* str.splitlines(): i is the 1-based position read next, cur the line so far.
RECURSIVE SplitFrom(_, _, _)
SplitFrom(text, i, cur) ==
    IF i > Len(text) THEN (IF cur = <<>> THEN <<>> ELSE <<cur>>)
    ELSE IF text[i] = "\r" /\ i < Len(text) /\ text[i + 1] = "\n"
         THEN <<cur>> \o SplitFrom(text, i + 2, <<>>)
    ELSE IF text[i] \in LineBreaks
         THEN <<cur>> \o SplitFrom(text, i + 1, <<>>)
    ELSE SplitFrom(text, i + 1, Append(cur, text[i]))

SplitLines(text) == SplitFrom(text, 1, <<>>)

-----------------------------------------------------------------------------
(* compare_outputs.clean_output: the two timestamp substitutions.          *)

\* Does \d{2}:\d{2}:\d{2} match s at 1-based position i?
MatchHMS(s, i) ==
    /\ i + 7 <= Len(s)
    /\ IsDigit(s[i]) /\ IsDigit(s[i + 1]) /\ s[i + 2] = ":"
    /\ IsDigit(s[i + 3]) /\ IsDigit(s[i + 4]) /\ s[i + 5] = ":"
    /\ IsDigit(s[i + 6]) /\ IsDigit(s[i + 7])

\* The length of the run of digits of s that starts at position i.
RECURSIVE DigitRun(_, _)
DigitRun(s, i) ==
    IF i <= Len(s) /\ IsDigit(s[i]) THEN 1 + DigitRun(s, i + 1) ELSE 0

\* The length of the match of \d{2}:\d{2}:\d{2}\.\d+ at position i, 0 if none.
MatchHMSFrac(s, i) ==
    IF MatchHMS(s, i) /\ i + 9 <= Len(s) /\ s[i + 8] = "." /\ IsDigit(s[i + 9])
    THEN 9 + DigitRun(s, i + 9)
    ELSE 0

\* re.sub(r'\d{2}:\d{2}:\d{2}\.\d+', 'XX:XX:XX.XXX', line): leftmost matches,
\* left to right, never overlapping.
RECURSIVE SubHMSFrac(_, _)
SubHMSFrac(s, i) ==
    IF i > Len(s) THEN <<>>
    ELSE IF MatchHMSFrac(s, i) > 0
         THEN Word.hms_frac \o SubHMSFrac(s, i + MatchHMSFrac(s, i))
    ELSE <<s[i]>> \o SubHMSFrac(s, i + 1)

\* re.sub(r'\d{2}:\d{2}:\d{2}', 'XX:XX:XX', line).
RECURSIVE SubHMS(_, _)
SubHMS(s, i) ==
    IF i > Len(s) THEN <<>>
    ELSE IF MatchHMS(s, i) THEN Word.hms \o SubHMS(s, i + 8)
    ELSE <<s[i]>> \o SubHMS(s, i + 1)

\* The body of clean_output's loop for a line that is kept.
CleanLine(line) == SubHMS(SubHMSFrac(line, 1), 1)

RECURSIVE CleanLines(_)
CleanLines(lines) ==
    IF lines = <<>> THEN <<>>
    ELSE IF Strip(Head(lines)) = <<>> THEN CleanLines(Tail(lines))
    ELSE <<CleanLine(Head(lines))>> \o CleanLines(Tail(lines))

clean_output(text) == CleanLines(SplitLines(text))

-----------------------------------------------------------------------------
(* difflib, as compare_outputs uses it: SequenceMatcher's matching blocks  *)
(* and Differ.compare (no junk; the autojunk heuristic needs 200 or more   *)
(* elements).  Indices are Python's: 0-based, ranges half-open.            *)

\* The length of the common run of a from i and b from j, inside [..ahi), [..bhi).
RECURSIVE RunLen(_, _, _, _, _, _)
RunLen(a, b, i, j, ahi, bhi) ==
    IF i < ahi /\ j < bhi /\ a[i + 1] = b[j + 1]
    THEN 1 + RunLen(a, b, i + 1, j + 1, ahi, bhi)
    ELSE 0

\* The greatest and the least element of a non-empty set of numbers.
MaxOf(S) == CHOOSE k \in S : \A n \in S : n <= k
MinOf(S) == CHOOSE k \in S : \A n \in S : k <= n

\* Of the blocks of size k that start at the pairs in starts, the one
\* starting earliest in a and, of those, earliest in b.
EarliestInB(starts, besti, k) ==
    [i |-> besti, j |-> MinOf({p[2] : p \in {q \in starts : q[1] = besti}}), k |-> k]

EarliestBlock(starts, k) == EarliestInB(starts, MinOf({p[1] : p \in starts}), k)

\* run[<<i, j>>] is the length of the common run from (i, j).
LongestOf(run, bestsize, alo, blo) ==
    IF bestsize = 0 THEN [i |-> alo, j |-> blo, k |-> 0]
    ELSE EarliestBlock({p \in DOMAIN run : run[p] = bestsize}, bestsize)

LongestRun(run, alo, blo) ==
    LongestOf(run, MaxOf({run[p] : p \in DOMAIN run} \cup {0}), alo, blo)

\* SequenceMatcher.find_longest_match: the longest block; of those the one
\* starting earliest in a; of those the one starting earliest in b.
find_longest_match(a, b, alo, ahi, blo, bhi) ==
    LongestRun([p \in (alo .. ahi - 1) \X (blo .. bhi - 1) |->
                  RunLen(a, b, p[1], p[2], ahi, bhi)], alo, blo)

\* SequenceMatcher.get_matching_blocks, without the final sentinel block:
\* the longest block m of the window, and the blocks to its left and right.
RECURSIVE matching_blocks(_, _, _, _, _, _)
BlocksAround(a, b, alo, ahi, blo, bhi, m) ==
    IF m.k = 0 THEN <<>>
    ELSE (IF alo < m.i /\ blo < m.j
            THEN matching_blocks(a, b, alo, m.i, blo, m.j) ELSE <<>>)
         \o <<m>>
         \o (IF m.i + m.k < ahi /\ m.j + m.k < bhi
               THEN matching_blocks(a, b, m.i + m.k, ahi, m.j + m.k, bhi)
               ELSE <<>>)

matching_blocks(a, b, alo, ahi, blo, bhi) ==
    BlocksAround(a, b, alo, ahi, blo, bhi,
                 find_longest_match(a, b, alo, ahi, blo, bhi))

\* The number of matched elements: SequenceMatcher.ratio() is 2*Matches/Total.
RECURSIVE SumSizes(_)
SumSizes(blocks) ==
    IF blocks = <<>> THEN 0 ELSE Head(blocks).k + SumSizes(Tail(blocks))

Matches(x, y) == SumSizes(matching_blocks(x, y, 0, Len(x), 0, Len(y)))

\* Differ._dump: the lines x[lo:hi], each behind the two-character tag.
Dump(tag, x, lo, hi) == [n \in 1 .. (hi - lo) |-> tag \o x[lo + n]]

\* The intraline guides of a similar pair: '^' under replaced, '-' under
\* deleted, '+' under inserted characters, blank under equal ones
\* (Differ._fancy_replace's atags and btags), from the blocks of the pair.
RECURSIVE TagsFrom(_, _, _, _, _, _)
TagsFrom(blocks, n, i, j, la, lb) ==
    LET ai == IF n > Len(blocks) THEN la ELSE blocks[n].i
        bj == IF n > Len(blocks) THEN lb ELSE blocks[n].j
        gapA == [t \in 1 .. (ai - i) |-> IF j < bj THEN "^" ELSE "-"]
        gapB == [t \in 1 .. (bj - j) |-> IF i < ai THEN "^" ELSE "+"]
    IN  IF n > Len(blocks) THEN <<gapA, gapB>>
        ELSE LET eq == [t \in 1 .. blocks[n].k |-> " "]
                 rest == TagsFrom(blocks, n + 1, ai + blocks[n].k,
                                  bj + blocks[n].k, la, lb)
             IN  <<gapA \o eq \o rest[1], gapB \o eq \o rest[2]>>

\* Differ._keep_original_ws followed by rstrip().
GuideLine(line, tags) ==
    RStrip([t \in 1 .. Len(tags) |->
              IF tags[t] = " " /\ IsSpace(line[t]) THEN line[t] ELSE tags[t]])

\* Differ._qformat: the pair with its guides ga and gb; a blank guide is
\* left out.
QRender(aline, bline, ga, gb) ==
    <<<<"-", " ">> \o aline>>
    \o (IF ga = <<>> THEN <<>> ELSE <<<<"?", " ">> \o ga \o <<"\n">>>>)
    \o <<<<"+", " ">> \o bline>>
    \o (IF gb = <<>> THEN <<>> ELSE <<<<"?", " ">> \o gb \o <<"\n">>>>)

QTagged(aline, bline, tags) ==
    QRender(aline, bline, GuideLine(aline, tags[1]), GuideLine(bline, tags[2]))

QFormat(aline, bline) ==
    QTagged(aline, bline,
            TagsFrom(matching_blocks(aline, bline, 0, Len(aline), 0, Len(bline)),
                     1, 0, 0, Len(aline), Len(bline)))

\* SequenceMatcher.quick_ratio's count: the size of the intersection of the
\* two lines taken as multisets of characters, an upper bound of Matches.
Count(x, c) == Cardinality({n \in DOMAIN x : x[n] = c})

RECURSIVE SumMin(_, _, _)
SumMin(x, y, cs) ==
    IF cs = {} THEN 0
    ELSE LET c == CHOOSE d \in cs : TRUE
         IN  MinOf({Count(x, c), Count(y, c)}) + SumMin(x, y, cs \ {c})

QuickMatches(x, y) == SumMin(x, y, Range(x) \cap Range(y))

\* Is the ratio 2*m/t strictly above that of best?
Above(m, t, best) == 2 * m * best.t > best.m * t

\* The best pair after the pair (i, j) with m matched characters of t.
Improve(i, j, m, t, best) ==
    IF Above(m, t, best) THEN [m |-> 2 * m, t |-> t, pair |-> <<<<i, j>>>>]
    ELSE best

\* The body of Differ._fancy_replace's inner loop for the lines ai and bj:
\* identical lines are passed over, and the ratio is computed only when the
\* two cheap upper bounds of it are above the best so far.
Candidate(ai, bj, i, j, best) ==
    IF /\ ai # bj
       /\ Above(MinOf({Len(ai), Len(bj)}), Len(ai) + Len(bj), best)
       /\ Above(QuickMatches(ai, bj), Len(ai) + Len(bj), best)
    THEN Improve(i, j, Matches(ai, bj), Len(ai) + Len(bj), best)
    ELSE best

\* Differ._fancy_replace's search loops (j outer, i inner) from the pair
\* (i, j) on: best is the best pair so far with its ratio m/t.
RECURSIVE ScanPairs(_, _, _, _, _, _, _, _, _)
ScanPairs(a, alo, ahi, b, blo, bhi, i, j, best) ==
    IF j >= bhi THEN best
    ELSE IF i >= ahi THEN ScanPairs(a, alo, ahi, b, blo, bhi, alo, j + 1, best)
    ELSE ScanPairs(a, alo, ahi, b, blo, bhi, i + 1, j,
                   Candidate(a[i + 1], b[j + 1], i, j, best))

\* No pair when the best ratio is below the cutoff 0.75 (3/4).
Cutoff(best) == IF 4 * best.m < 3 * best.t THEN <<>> ELSE best.pair

\* The synch pair of Differ._fancy_replace: the scan starts from no pair
\* and the ratio 0.74 (37/50).
BestPair(a, alo, ahi, b, blo, bhi) ==
    Cutoff(ScanPairs(a, alo, ahi, b, blo, bhi, alo, blo,
                     [m |-> 37, t |-> 50, pair |-> <<>>]))

\* Differ._plain_replace.
PlainReplace(a, alo, ahi, b, blo, bhi) ==
    IF bhi - blo < ahi - alo
    THEN Dump(<<"+", " ">>, b, blo, bhi) \o Dump(<<"-", " ">>, a, alo, ahi)
    ELSE Dump(<<"-", " ">>, a, alo, ahi) \o Dump(<<"+", " ">>, b, blo, bhi)

\* Differ._fancy_helper, with Differ._fancy_replace for a two-sided block:
\* without a synch pair bp a plain replace, else the lines before the pair,
\* the pair, the lines after it.
RECURSIVE FancyHelper(_, _, _, _, _, _)
FancyReplace(a, alo, ahi, b, blo, bhi, bp) ==
    IF bp = <<>> THEN PlainReplace(a, alo, ahi, b, blo, bhi)
    ELSE FancyHelper(a, alo, bp[1][1], b, blo, bp[1][2])
         \o QFormat(a[bp[1][1] + 1], b[bp[1][2] + 1])
         \o FancyHelper(a, bp[1][1] + 1, ahi, b, bp[1][2] + 1, bhi)

FancyHelper(a, alo, ahi, b, blo, bhi) ==
    IF alo < ahi /\ blo < bhi
    THEN FancyReplace(a, alo, ahi, b, blo, bhi, BestPair(a, alo, ahi, b, blo, bhi))
    ELSE IF alo < ahi THEN Dump(<<"-", " ">>, a, alo, ahi)
    ELSE IF blo < bhi THEN Dump(<<"+", " ">>, b, blo, bhi)
    ELSE <<>>

\* Differ.compare: the opcodes between and of the matching blocks, rendered.
RECURSIVE CompareFrom(_, _, _, _, _, _)
CompareFrom(a, b, blocks, n, i, j) ==
    IF n > Len(blocks) THEN FancyHelper(a, i, Len(a), b, j, Len(b))
    ELSE FancyHelper(a, i, blocks[n].i, b, j, blocks[n].j)
         \o Dump(<<" ", " ">>, a, blocks[n].i, blocks[n].i + blocks[n].k)
         \o CompareFrom(a, b, blocks, n + 1,
                        blocks[n].i + blocks[n].k, blocks[n].j + blocks[n].k)

DifferCompare(a, b) ==
    CompareFrom(a, b, matching_blocks(a, b, 0, Len(a), 0, Len(b)), 1, 0, 0)

-----------------------------------------------------------------------------
(* compare_outputs: the categorisation of the diff lines.                  *)

NoChanges == [added |-> <<>>, removed |-> <<>>, changed |-> <<>>]

\* line[2:]
Drop2(line) == SubSeq(line, 3, Len(line))

\* One pass of the loop over diff with the first two branches swapped:
\* '+ ' lines filed under 'removed' and '- ' lines under 'added'.
CategorizeLine_swapped(ch, line) ==
    IF StartsWith(line, <<"+", " ">>)
    THEN [ch EXCEPT !.removed = Append(@, Drop2(line))]
    ELSE IF StartsWith(line, <<"-", " ">>)
    THEN [ch EXCEPT !.added = Append(@, Drop2(line))]
    ELSE IF StartsWith(line, <<"?", " ">>) THEN ch
    ELSE [ch EXCEPT !.changed = Append(@, Drop2(line))]

\* One pass of the loop over diff.
CategorizeLine(ch, line) ==
    IF StartsWith(line, <<"+", " ">>)
    THEN [ch EXCEPT !.added = Append(@, Drop2(line))]
    ELSE IF StartsWith(line, <<"-", " ">>)
    THEN [ch EXCEPT !.removed = Append(@, Drop2(line))]
    ELSE IF StartsWith(line, <<"?", " ">>) THEN ch
    ELSE [ch EXCEPT !.changed = Append(@, Drop2(line))]

RECURSIVE Categorize(_, _)
Categorize(ch, lines) ==
    IF lines = <<>> THEN ch
    ELSE Categorize(CategorizeLine(ch, Head(lines)), Tail(lines))

-----------------------------------------------------------------------------
(* The lookups exercised on bounded classification strings.                *)

\* Classification strings are concatenations of at most MaxTypeParts pieces.
MaxTypeParts == 2

TypeParts ==
    { Name.juniper, Name.arista, Name.default, Name.unknown,
      <<"c", "i", "s", "c", "o">>, <<"-", "i", "o", "s">>,
      <<"-", "n", "x", "o", "s">>, <<"-", "m", "x">> }

Classifications == {Flatten(ps) : ps \in SeqsUpTo(TypeParts, MaxTypeParts)}

NoProfile == [g \in {} |-> <<>>]

\* compare_outputs not in use.
IdleDiff ==
    /\ pre_output = <<>>
    /\ post_output = <<>>
    /\ pre_lines = <<>>
    /\ post_lines = <<>>
    /\ diff = <<>>
    /\ changes = <<>>

IdleProfile ==
    /\ classification = <<>>
    /\ profile = NoProfile

\* get_command_output not in use, on a silent channel.
IdleCollect ==
    /\ now = 0
    /\ wire = <<>>
    /\ inbuf = <<>>
    /\ consumed = <<>>
    /\ cpc = "idle"
    /\ start_time = 0
    /\ wake = 0
    /\ output = <<>>

\* config_push has not been called.
IdlePush ==
    /\ hostname_list = <<>>
    /\ host_i = 0
    /\ pre_commands = <<>>
    /\ config_commands = <<>>
    /\ post_commands = <<>>
    /\ results = <<>>
    /\ network = <<>>
    /\ attempts = <<>>
    /\ unclosed = 0

\* No shell is open and no function that uses one is running.
IdleEngine ==
    /\ device = <<>>
    /\ chan = "none"
    /\ late = 0
    /\ oplog = <<>>
    /\ swallowed = FALSE
    /\ exc = "none"
    /\ ipc = "idle"
    /\ probe_output = <<>>
    /\ version_output = <<>>
    /\ device_type = <<>>
    /\ epc = "idle"
    /\ commands = <<>>
    /\ cmd_i = 0
    /\ output_data = <<>>
    /\ pc = "none"
    /\ IdlePush

InitProfile ==
    /\ classification \in Classifications
    /\ profile = NoProfile
    /\ IdleDiff
    /\ IdleCollect
    /\ IdleEngine

CallGetPagination ==
    /\ "pagination" \notin DOMAIN profile
    /\ profile' = profile @@ ("pagination" :> get_pagination_command(classification))
    /\ UNCHANGED <<classification, notProfile>>

CallGetConfigMode ==
    /\ "config" \notin DOMAIN profile
    /\ profile' = profile @@ ("config" :> get_config_mode_command(classification))
    /\ UNCHANGED <<classification, notProfile>>

CallGetCommit ==
    /\ "commit" \notin DOMAIN profile
    /\ profile' = profile @@ ("commit" :> get_commit_command(classification))
    /\ UNCHANGED <<classification, notProfile>>

NextProfile == CallGetPagination \/ CallGetConfigMode \/ CallGetCommit

SpecProfile == InitProfile /\ [][NextProfile]_vars

DefaultTriple ==
    [pagination |-> Cmd.terminal_length_0,
     config |-> Cmd.configure_terminal,
     commit |-> Cmd.end]

TableKeys == {Name.juniper, Name.cisco_ios, Name.cisco_nxos, Name.arista, Name.default}

\* C1: every lookup returns a non-empty command for every classification
\* string, and for 'unknown' and every string that is not a key of the
\* tables the three lookups return 'terminal length 0', 'configure
\* terminal' and 'end'.
C1_ProfileNonEmptyAndDefault ==
    /\ \A g \in DOMAIN profile : profile[g] # <<>>
    /\ (classification = Name.unknown \/ classification \notin TableKeys)
          => \A g \in DOMAIN profile : profile[g] = DefaultTriple[g]

\* A classification that is no table key, with all three lookups made.
C1_Witness ==
    /\ classification \notin TableKeys
    /\ classification \notin {<<>>, Name.unknown}
    /\ DOMAIN profile = {"pagination", "config", "commit"}

-----------------------------------------------------------------------------
(* compare_outputs exercised on bounded pre-check and post-check texts.    *)

\* A text grows while it has fewer than MaxDiffLines lines.
MaxDiffLines == 2


\* The pieces a text is made of: lines with their terminators, the last
\* one followed by a whitespace-only line.
DiffLines ==
    { Said.line_ntp_old \o <<"\n">>, Said.line_ntp_new \o <<"\n">>,
      Said.line_uptime_0 \o <<"\r", "\n">>, Said.line_uptime_5 \o <<"\r", "\n">>,
      Said.line_clock \o <<"\n">> \o Said.line_blank \o <<"\n">> }

CountLines(text) == Len(SplitLines(text))

InitDiff ==
    /\ pre_output = <<>>
    /\ post_output = <<>>
    /\ pre_lines = <<>>
    /\ post_lines = <<>>
    /\ diff = <<>>
    /\ changes = <<>>
    /\ IdleProfile
    /\ IdleCollect
    /\ IdleEngine

\* The caller's pre-check transcript grows by a line.
AppendPre ==
    /\ changes = <<>>
    /\ CountLines(pre_output) < MaxDiffLines
    /\ \E l \in DiffLines : pre_output' = pre_output \o l
    /\ UNCHANGED <<post_output, pre_lines, post_lines, diff, changes, notDiff>>

\* The caller's post-check transcript grows by a line.
AppendPost ==
    /\ changes = <<>>
    /\ CountLines(post_output) < MaxDiffLines
    /\ \E l \in DiffLines : post_output' = post_output \o l
    /\ UNCHANGED <<pre_output, pre_lines, post_lines, diff, changes, notDiff>>

\* compare_outputs(pre_output, post_output, hostname) up to the report.
CompareOutputs ==
    /\ changes = <<>>
    /\ pre_lines' = clean_output(pre_output)
    /\ post_lines' = clean_output(post_output)
    /\ diff' = DifferCompare(pre_lines', post_lines')
    /\ changes' = Categorize(NoChanges, diff')
    /\ UNCHANGED <<pre_output, post_output, notDiff>>

NextDiff == AppendPre \/ AppendPost \/ CompareOutputs

SpecDiff == InitDiff /\ [][NextDiff]_vars

Compared == changes # <<>>

\* C3: comparing a text with itself computes empty 'added', 'removed' and
\* 'changed' lists.
C3_SelfDiffEmpty ==
    (Compared /\ pre_output = post_output) => changes = NoChanges

\* Two texts that are equal except for digits inside HH:MM:SS[.fraction]
\* substrings: same length, and wherever they differ both characters are
\* digits of such a substring in both texts.
InTimestamp(s, n) ==
    \E i \in 1 .. n :
        /\ MatchHMS(s, i)
        /\ n < i + (IF MatchHMSFrac(s, i) > 0 THEN MatchHMSFrac(s, i) ELSE 8)

SameUpToTimestampDigits(s, t) ==
    /\ Len(s) = Len(t)
    /\ \A n \in 1 .. Len(s) :
          s[n] # t[n] => /\ IsDigit(s[n]) /\ IsDigit(t[n])
                         /\ InTimestamp(s, n) /\ InTimestamp(t, n)

\* C4: two texts that differ only in the digits of their timestamps
\* normalise to the same lines, and no line is reported as added, removed
\* or changed.
C4_TimestampsIgnored ==
    (Compared /\ SameUpToTimestampDigits(pre_output, post_output))
        => (pre_lines = post_lines /\ changes = NoChanges)

\* C5: every normalised line of post that is no line of pre is in 'added',
\* every normalised line of pre that is no line of post is in 'removed',
\* 'added' holds only lines of post and 'removed' only lines of pre.
C5_AddedRemoved ==
    Compared =>
        /\ Range(post_lines) \ Range(pre_lines) \subseteq Range(changes.added)
        /\ Range(pre_lines) \ Range(post_lines) \subseteq Range(changes.removed)
        /\ Range(changes.added) \subseteq Range(post_lines)
        /\ Range(changes.removed) \subseteq Range(pre_lines)

\* The spec's scenario: 'ntp-server 1.2.3.4' before, 'ntp-server 5.6.7.8' after.
C5_Witness ==
    /\ Compared
    /\ pre_output = Said.line_ntp_old \o <<"\n">>
    /\ post_output = Said.line_ntp_new \o <<"\n">>
    /\ changes.removed = <<Said.line_ntp_old>>
    /\ changes.added = <<Said.line_ntp_new>>

-----------------------------------------------------------------------------
(* The session channel, as far as the program can tell: the device's       *)
(* output arrives in chunks at times of its own; recv(n) hands over at     *)
(* most n of the bytes that have arrived.                                  *)

\* A byte that is no valid UTF-8: decode('utf-8', errors='ignore') drops it.
BadByte == "0xFF"

\* A byte on the channel is a character together with the position in oplog
\* of the send the device answered with it (0: sent unasked).
Tag(text, k) == [i \in DOMAIN text |-> [ch |-> text[i], src |-> k]]

\* The characters of a sequence of bytes.
Chars(bytes) == [i \in DOMAIN bytes |-> bytes[i].ch]

\* bytes.decode('utf-8', errors='ignore')
Decode(bytes) == SelectSeq(bytes, LAMBDA b : b.ch # BadByte)

\* shell.recv_ready()
RecvReady == inbuf # <<>>

\* The bytes shell.recv(n) returns when some have arrived.
RecvBytes(n) == SubSeq(inbuf, 1, MinOf({n, Len(inbuf)}))

\* The bytes that stay in the channel after shell.recv(n).
RecvRest(n) == SubSeq(inbuf, MinOf({n, Len(inbuf)}) + 1, Len(inbuf))

\* A chunk of the device's output arrives.
Deliver ==
    /\ wire # <<>>
    /\ inbuf' = inbuf \o Head(wire)
    /\ wire' = Tail(wire)

-----------------------------------------------------------------------------
(* get_command_output(shell, timeout=2), statement by statement.  Time is  *)
(* counted in tenths of a second.                                          *)

Timeout == 20
SleepTicks == 1
CollectRecvSize == 4096

\* The clock is followed for MaxOvershoot ticks past the latest end of a
\* window that starts no later than MaxStart.
MaxStart == 1
MaxOvershoot == 2
ClockEnd == MaxStart + Timeout + MaxOvershoot

\* The device emits at most MaxChunks chunks.
MaxChunks == 2

\* The loop condition: time.time() - start_time < timeout
WindowOpen == now - start_time < Timeout

\* except Exception: raise (the exception leaves the function).
OnException_reraise == cpc' = "raised"

\* except Exception: break
OnException == cpc' = "returned"

\* output = ''; start_time = time.time()
CollectEnter ==
    /\ cpc = "enter"
    /\ output' = <<>>
    /\ start_time' = now
    /\ cpc' = "while"
    /\ UNCHANGED <<now, wake, chanVars, notCollect>>

\* while time.time() - start_time < timeout: ... return output
CollectWhile ==
    /\ cpc = "while"
    /\ cpc' = IF WindowOpen THEN "recv_ready" ELSE "returned"
    /\ UNCHANGED <<now, start_time, wake, output, chanVars, notCollect>>

\* if shell.recv_ready(): ... else: time.sleep(0.1)
CollectRecvReady ==
    /\ cpc = "recv_ready"
    /\ IF RecvReady
       THEN cpc' = "recv" /\ UNCHANGED wake
       ELSE cpc' = "sleep" /\ wake' = now + SleepTicks
    /\ UNCHANGED <<now, start_time, output, chanVars, notCollect>>

\* recv_data = shell.recv(4096).decode(...); if not recv_data: break;
\* output += recv_data
CollectRecv ==
    /\ cpc = "recv"
    /\ inbuf' = RecvRest(CollectRecvSize)
    /\ consumed' = consumed \o RecvBytes(CollectRecvSize)
    /\ IF Decode(RecvBytes(CollectRecvSize)) = <<>>
       THEN cpc' = "returned" /\ UNCHANGED output
       ELSE cpc' = "while" /\ output' = output \o Decode(RecvBytes(CollectRecvSize))
    /\ UNCHANGED <<now, start_time, wake, wire, notCollect>>

\* time.sleep(0.1) returns.
CollectWake ==
    /\ cpc = "sleep"
    /\ now >= wake
    /\ cpc' = "while"
    /\ wake' = 0
    /\ UNCHANGED <<now, start_time, output, chanVars, notCollect>>

\* shell.recv_ready() or shell.recv() raises.
CollectRaise ==
    /\ cpc \in {"recv_ready", "recv"}
    /\ OnException
    /\ UNCHANGED <<now, start_time, wake, output, chanVars, notCollect>>

CollectStep ==
    \/ CollectEnter
    \/ CollectWhile
    \/ CollectRecvReady
    \/ CollectRecv
    \/ CollectWake

\* The clock advances (followed from the call on, up to ClockEnd or the
\* end of a sleep that is under way).
Tick ==
    /\ cpc # "enter"
    /\ now < ClockEnd \/ (cpc = "sleep" /\ now < wake)
    /\ now' = now + 1
    /\ UNCHANGED <<cpc, start_time, wake, output, chanVars, notCollect>>

\* The device's output arrives while the collector runs.
CollectDeliver ==
    /\ Deliver
    /\ UNCHANGED <<consumed, collVars, notCollect>>

Chunks == {Tag(<<"o", "k">>, 0), Tag(<<"\n">>, 0), Tag(<<BadByte>>, 0)}

InitCollect ==
    /\ now \in 0 .. MaxStart
    /\ wire \in SeqsUpTo(Chunks, MaxChunks)
    /\ inbuf = <<>>
    /\ consumed = <<>>
    /\ cpc = "enter"
    /\ start_time = 0
    /\ wake = 0
    /\ output = <<>>
    /\ IdleProfile
    /\ IdleDiff
    /\ IdleEngine

NextCollect ==
    \/ CollectEnter
    \/ CollectWhile
    \/ CollectRecvReady
    \/ CollectRecv
    \/ CollectWake
    \/ CollectRaise
    \/ CollectDeliver
    \/ Tick

SpecCollect == InitCollect /\ [][NextCollect]_vars

\* The program runs on and the clock advances; the device need not send.
SpecCollectFair ==
    /\ SpecCollect
    /\ WF_vars(CollectStep)
    /\ WF_vars(Tick)

\* C7: get_command_output always returns: whatever the channel does, the
\* loop is left at the first test of its condition made after the window
\* has elapsed (and not before, unless a read is empty or raises), and the
\* call returns the decoded bytes it has read, never raising.
C7_CollectorReturns ==
    /\ <>(cpc = "returned")
    /\ [](cpc # "raised")
    /\ [][(cpc = "while" /\ cpc' # "while")
            => (cpc' = "returned" <=> now - start_time >= Timeout)]_vars
    /\ [](cpc = "returned" => output = Decode(consumed))

\* The window elapsed on a channel that delivered data in the window.
C7_Witness ==
    /\ cpc = "returned"
    /\ now - start_time >= Timeout
    /\ output # <<>>
    /\ wire # <<>>

-----------------------------------------------------------------------------
(* The string tests of identify_device_type.                               *)

UpperCase == <<"A", "B", "C", "D", "E", "F", "G", "H", "I", "J", "K", "L", "M",
               "N", "O", "P", "Q", "R", "S", "T", "U", "V", "W", "X", "Y", "Z">>
LowerCase == <<"a", "b", "c", "d", "e", "f", "g", "h", "i", "j", "k", "l", "m",
               "n", "o", "p", "q", "r", "s", "t", "u", "v", "w", "x", "y", "z">>

\* str.lower() for one character.
LowerChar(c) ==
    IF \E i \in DOMAIN UpperCase : UpperCase[i] = c
    THEN LowerCase[CHOOSE i \in DOMAIN UpperCase : UpperCase[i] = c]
    ELSE c

\* str.lower()
Lower(s) == [i \in DOMAIN s |-> LowerChar(s[i])]

\* The literal sub stands in text at position p.
At(text, p, sub) ==
    /\ p >= 1
    /\ p + Len(sub) - 1 <= Len(text)
    /\ SubSeq(text, p, p + Len(sub) - 1) = sub

\* sub in text
Contains(text, sub) == \E p \in 1 .. Len(text) + 1 : At(text, p, sub)

\* re.search(literal, text, re.IGNORECASE) for a lower-case literal.
SearchIgnoreCase(text, sub) == Contains(Lower(text), sub)

\* re.search(literal + r'\d+', text)
SearchThenDigit(text, sub) ==
    \E p \in 1 .. Len(text) :
        /\ At(text, p, sub)
        /\ p + Len(sub) <= Len(text)
        /\ IsDigit(text[p + Len(sub)])

\* re.search(r'N[1-9][K]', text)
SearchNexusModel(text) ==
    \E p \in 1 .. Len(text) :
        /\ p + 2 <= Len(text)
        /\ text[p] = "N"
        /\ IsDigit(text[p + 1]) /\ text[p + 1] # "0"
        /\ text[p + 2] = "K"

\* '^' under re.MULTILINE: the start of the text or just after a newline.
LineStart(text, p) == p = 1 \/ text[p - 1] = "\n"

\* The first position at or after p that holds no whitespace (\s* is greedy).
RECURSIVE SkipSpace(_, _)
SkipSpace(text, p) ==
    IF p <= Len(text) /\ IsSpace(text[p]) THEN SkipSpace(text, p + 1) ELSE p

\* The run of non-whitespace that starts at p (\S+ is greedy).
RECURSIVE TokenAt(_, _)
TokenAt(text, p) ==
    IF p <= Len(text) /\ ~IsSpace(text[p])
    THEN <<text[p]>> \o TokenAt(text, p + 1)
    ELSE <<>>

\* The positions where r'^Model:\s*(\S+)' matches.
ModelMatches(text) ==
    {p \in 1 .. Len(text) :
        /\ LineStart(text, p)
        /\ At(text, p, Word.model)
        /\ SkipSpace(text, p + Len(Word.model)) <= Len(text)}

\* model_match.group(1) of re.search(r'^Model:\s*(\S+)', text, re.MULTILINE),
\* or the empty sequence for None: the search stops at the leftmost match.
ModelGroup(text) ==
    IF ModelMatches(text) = {} THEN <<>>
    ELSE TokenAt(text, SkipSpace(text, MinOf(ModelMatches(text)) + Len(Word.model)))

\* The first test written as an equality: if model == 'mx'.
JuniperFamily_exact(model) ==
    IF model = Word.mx THEN Name.juniper_mx
    ELSE IF Contains(model, Word.ex) THEN Name.juniper_ex
    ELSE IF Contains(model, Word.srx) THEN Name.juniper_srx
    ELSE IF Contains(model, Word.qfx) THEN Name.juniper_qfx
    ELSE Name.juniper_unknown

\* The Juniper branch for a matched model (lines 110-120).
JuniperFamily(model) ==
    IF Contains(model, Word.mx) THEN Name.juniper_mx
    ELSE IF Contains(model, Word.ex) THEN Name.juniper_ex
    ELSE IF Contains(model, Word.srx) THEN Name.juniper_srx
    ELSE IF Contains(model, Word.qfx) THEN Name.juniper_qfx
    ELSE Name.juniper_unknown

\* The families tested in the opposite order.
CiscoAristaFamily_aristaFirst(text) ==
    IF SearchIgnoreCase(text, Name.arista)
    THEN IF SearchThenDigit(text, Word.dcs) THEN Name.arista_dcs ELSE Name.arista
    ELSE IF SearchIgnoreCase(text, Word.nx_os) \/ SearchIgnoreCase(text, Word.nexus)
    THEN IF SearchNexusModel(text) THEN Name.cisco_nxos ELSE Name.cisco_nxos_unknown
    ELSE IF SearchIgnoreCase(text, Word.cisco_ios) \/ SearchIgnoreCase(text, Word.ios_software)
    THEN IF SearchThenDigit(text, Word.asr) THEN Name.cisco_ios_asr
         ELSE IF SearchThenDigit(text, Word.isr) THEN Name.cisco_ios_isr
         ELSE IF SearchThenDigit(text, Word.csr) THEN Name.cisco_ios_csr
         ELSE IF SearchThenDigit(text, Word.c) THEN Name.cisco_ios_catalyst
         ELSE Name.cisco_ios
    ELSE Name.unknown

\* The Cisco / Arista classification of a 'show version' output
\* (lines 130-159).
CiscoAristaFamily(text) ==
    IF SearchIgnoreCase(text, Word.cisco_ios) \/ SearchIgnoreCase(text, Word.ios_software)
    THEN IF SearchThenDigit(text, Word.asr) THEN Name.cisco_ios_asr
         ELSE IF SearchThenDigit(text, Word.isr) THEN Name.cisco_ios_isr
         ELSE IF SearchThenDigit(text, Word.csr) THEN Name.cisco_ios_csr
         ELSE IF SearchThenDigit(text, Word.c) THEN Name.cisco_ios_catalyst
         ELSE Name.cisco_ios
    ELSE IF SearchIgnoreCase(text, Word.nx_os) \/ SearchIgnoreCase(text, Word.nexus)
    THEN IF SearchNexusModel(text) THEN Name.cisco_nxos ELSE Name.cisco_nxos_unknown
    ELSE IF SearchIgnoreCase(text, Name.arista)
    THEN IF SearchThenDigit(text, Word.dcs) THEN Name.arista_dcs ELSE Name.arista
    ELSE Name.unknown

-----------------------------------------------------------------------------
(* The shell as identify_device_type, execute_commands and config_push use *)
(* it: blocking sends and receives under settimeout(2), and                *)
(* get_command_output as one step (its loop is followed statement by       *)
(* statement in SpecCollect).                                              *)

RecvSize == 1024

\* At most MaxLate answers of the device straggle: part of such an answer
\* arrives only after the program's next receive has begun.
MaxLate == 1

\* What the device writes when it receives cmd, as a sequence of chunks.
Answer(cmd) ==
    IF cmd = Cmd.set_cli_screen_length_0 THEN device.probe
    ELSE IF cmd = Cmd.show_version THEN device.version
    ELSE IF cmd = Cmd.terminal_length_0 THEN device.termlen
    ELSE device.reply

\* An entry of oplog: the operation, the command sent, what the command is
\* to the caller, the phase of config_push and the bytes read.
Op(op, cmd, role, data) ==
    [op |-> op, cmd |-> cmd, role |-> role, phase |-> pc, data |-> data]

\* The answer of the device to send number k, cut after n chunks: the head
\* has arrived when the program receives next, the rest is on its way.
ArrivedPart(cmd, k, n) == Flatten([i \in 1 .. n |-> Tag(Answer(cmd)[i], k)])
StragglingPart(cmd, k, n) ==
    [i \in 1 .. Len(Answer(cmd)) - n |-> Tag(Answer(cmd)[n + i], k)]

\* shell.send(cmd + '\n') on an open channel.
Send(cmd, role) ==
    /\ chan = "open"
    /\ oplog' = Append(oplog, Op("send", cmd, role, <<>>))
    /\ \E n \in 0 .. Len(Answer(cmd)) :
        /\ n > 0 => wire = <<>>
        /\ IF n < Len(Answer(cmd)) /\ wire = <<>>
           THEN late > 0 /\ late' = late - 1
           ELSE late' = late
        /\ inbuf' = inbuf \o ArrivedPart(cmd, Len(oplog) + 1, n)
        /\ wire' = wire \o StragglingPart(cmd, Len(oplog) + 1, n)

\* shell.send raises: the channel is closed.
SendRaises == chan = "closed"

\* shell.recv(1024) returns: data has arrived, or the channel is closed
\* (then the result is empty).
RecvReturns == inbuf # <<>> \/ chan = "closed"

\* shell.recv(1024) raises socket.timeout: nothing arrived within 2 s.
RecvRaises == inbuf = <<>> /\ chan = "open"

\* shell.recv(1024), with role the command it follows.
Recv(role) ==
    /\ RecvReturns
    /\ inbuf' = RecvRest(RecvSize)
    /\ oplog' = Append(oplog, Op("recv", <<>>, role, RecvBytes(RecvSize)))

\* get_command_output(shell) with result got: everything that has arrived
\* by the end of the window is read; on a closed channel the first poll may
\* raise instead, which the function swallows.
Collect(got, role) ==
    \/ /\ got = Chars(Decode(inbuf))
       /\ oplog' = Append(oplog, Op("collect", <<>>, role, inbuf))
       /\ inbuf' = <<>>
       /\ swallowed' = swallowed
    \/ /\ chan = "closed"
       /\ got = <<>>
       /\ oplog' = Append(oplog, Op("collect", <<>>, role, <<>>))
       /\ inbuf' = inbuf
       /\ swallowed' = TRUE

\* The results get_command_output can have in the current state.
Collectable == {Chars(Decode(inbuf)), <<>>}

\* More of the device's output arrives.
ShellDeliver ==
    /\ chan # "none"
    /\ Deliver
    /\ UNCHANGED <<engineVars, notEngine>>

\* The connection drops or the device closes the channel.
ShellCloses ==
    /\ chan = "open"
    /\ chan' = "closed"
    /\ UNCHANGED <<device, late, oplog, swallowed, exc, idVars, exVars,
                   pushVars, wire, inbuf, notEngine>>

-----------------------------------------------------------------------------
(* identify_device_type(shell), statement by statement.                    *)

\* shell.settimeout(2); shell.send('set cli screen-length 0\n')
IdSendProbe ==
    /\ ipc = "send_probe"
    /\ Send(Cmd.set_cli_screen_length_0, "probe")
    /\ ipc' = "recv_probe"
    /\ UNCHANGED <<device, chan, swallowed, exc, probe_output, version_output,
                   device_type, exVars, pushVars, notEngine>>

\* output = shell.recv(1024).decode(...);
\* if 'syntax error' not in output.lower(): ...
IdRecvProbe ==
    /\ ipc = "recv_probe"
    /\ Recv("probe")
    /\ probe_output' = Chars(Decode(RecvBytes(RecvSize)))
    /\ ipc' = IF ~Contains(Lower(probe_output'), Word.syntax_error)
              THEN "send_version"
              ELSE "send_terminal_length"
    /\ UNCHANGED <<device, chan, late, swallowed, exc, wire, version_output,
                   device_type, exVars, pushVars, notEngine>>

\* shell.send('show version\n') of the Juniper branch
IdSendVersion ==
    /\ ipc = "send_version"
    /\ Send(Cmd.show_version, "version")
    /\ ipc' = "collect_version"
    /\ UNCHANGED <<device, chan, swallowed, exc, probe_output, version_output,
                   device_type, exVars, pushVars, notEngine>>

\* version_output = get_command_output(shell); match = re.search(...);
\* if match: return 'juniper-...'; otherwise control falls out of the branch.
IdCollectVersion ==
    /\ ipc = "collect_version"
    /\ \E got \in Collectable :
        /\ Collect(got, "version")
        /\ version_output' = got
        /\ IF ModelGroup(got) # <<>>
           THEN /\ device_type' = JuniperFamily(Lower(ModelGroup(got)))
                /\ ipc' = "returned"
           ELSE /\ device_type' = device_type
                /\ ipc' = "send_terminal_length"
    /\ UNCHANGED <<device, chan, late, exc, wire, probe_output, exVars, pushVars, notEngine>>

\* shell.send('terminal length 0\n')
IdSendTerminalLength ==
    /\ ipc = "send_terminal_length"
    /\ Send(Cmd.terminal_length_0, "cisco_probe")
    /\ ipc' = "recv_clear"
    /\ UNCHANGED <<device, chan, swallowed, exc, probe_output, version_output,
                   device_type, exVars, pushVars, notEngine>>

\* shell.recv(1024)  # Clear buffer
IdRecvClear ==
    /\ ipc = "recv_clear"
    /\ Recv("cisco_probe")
    /\ ipc' = "send_version_again"
    /\ UNCHANGED <<device, chan, late, swallowed, exc, wire, probe_output,
                   version_output, device_type, exVars, pushVars, notEngine>>

\* shell.send('show version\n') of the Cisco / Arista part
IdSendVersionAgain ==
    /\ ipc = "send_version_again"
    /\ Send(Cmd.show_version, "cisco_version")
    /\ ipc' = "collect_classify"
    /\ UNCHANGED <<device, chan, swallowed, exc, probe_output, version_output,
                   device_type, exVars, pushVars, notEngine>>

\* version_output = get_command_output(shell); the Cisco / Arista tests;
\* return 'unknown'
IdCollectClassify ==
    /\ ipc = "collect_classify"
    /\ \E got \in Collectable :
        /\ Collect(got, "cisco_version")
        /\ version_output' = got
        /\ device_type' = CiscoAristaFamily(got)
    /\ ipc' = "returned"
    /\ UNCHANGED <<device, chan, late, exc, wire, probe_output, exVars, pushVars, notEngine>>

\* A send or a receive of identify_device_type raises: the exception leaves
\* the function.
IdRaise ==
    /\ \/ /\ ipc \in {"send_probe", "send_version", "send_terminal_length",
                      "send_version_again"}
          /\ SendRaises
          /\ exc' = "Socket is closed"
       \/ /\ ipc \in {"recv_probe", "recv_clear"}
          /\ RecvRaises
          /\ exc' = "timed out"
    /\ ipc' = "raised"
    /\ UNCHANGED <<device, chan, late, oplog, swallowed, probe_output, version_output, device_type,
                   exVars, pushVars, wire, inbuf, notEngine>>

IdentifyStep ==
    \/ IdSendProbe
    \/ IdRecvProbe
    \/ IdSendVersion
    \/ IdCollectVersion
    \/ IdSendTerminalLength
    \/ IdRecvClear
    \/ IdSendVersionAgain
    \/ IdCollectClassify
    \/ IdRaise

\* The devices identify_device_type is run against: what is in the channel
\* when the function is entered (banner), and the answers to its probes.
MaxVersionLines == 2
VersionLines == {Said.model_mx, Said.model_ex, Said.model_upper, Said.model_empty,
                 Said.hostname}
CiscoAristaLines == {Said.ios_plain, Said.asr_isr, Said.isr_csr, Said.csr, Said.nexus,
                     Said.nxos_lower, Said.arista_dcs, Said.arista_plain}
\* Devices that accept the Juniper probe (or stay silent), with every
\* 'show version' output of up to MaxVersionLines lines, devices that
\* reject it in one of three wordings, and devices that answer it with a
\* syntax error and have every 'show version' output of up to
\* MaxVersionLines Cisco / Arista lines.
AcceptingDevices ==
    {[banner |-> g[1], probe |-> g[2], version |-> v,
      termlen |-> <<Said.probe_invalid>>, reply |-> <<>>] :
        g \in {<<<<>>, <<>>>>, <<<<Said.prompt>>, <<>>>>, <<<<>>, <<Said.probe_ok>>>>},
        v \in SeqsUpTo(VersionLines, MaxVersionLines)}
RejectingDevices ==
    [banner : {<<>>},
     probe : {<<Said.probe_syntax>>, <<Said.probe_syntax_upper>>, <<Said.probe_invalid>>},
     version : SeqsUpTo({Said.ios, Said.hostname, Said.model_mx}, 1),
     termlen : {<<>>, <<Said.probe_ok>>},
     reply : {<<>>}]
    \cup
    [banner : {<<>>},
     probe : {<<Said.probe_syntax>>},
     version : SeqsUpTo(CiscoAristaLines, MaxVersionLines),
     termlen : {<<Said.probe_ok>>},
     reply : {<<>>}]
IdDevices == AcceptingDevices \cup RejectingDevices

InitIdentify ==
    /\ device \in IdDevices
    /\ chan = "open"
    /\ late = MaxLate
    /\ oplog = <<>>
    /\ swallowed = FALSE
    /\ exc = "none"
    /\ IdlePush
    /\ ipc = "send_probe"
    /\ probe_output = <<>>
    /\ version_output = <<>>
    /\ device_type = <<>>
    /\ epc = "idle"
    /\ commands = <<>>
    /\ cmd_i = 0
    /\ output_data = <<>>
    /\ pc = "identify"
    /\ now = 0
    /\ wire = <<>>
    /\ inbuf = Tag(Flatten(device.banner), 0)
    /\ consumed = <<>>
    /\ cpc = "idle"
    /\ start_time = 0
    /\ wake = 0
    /\ output = <<>>
    /\ IdleProfile
    /\ IdleDiff

NextIdentify ==
    \/ IdSendProbe
    \/ IdRecvProbe
    \/ IdSendVersion
    \/ IdCollectVersion
    \/ IdSendTerminalLength
    \/ IdRecvClear
    \/ IdSendVersionAgain
    \/ IdCollectClassify
    \/ IdRaise
    \/ ShellDeliver
    \/ ShellCloses

SpecIdentify == InitIdentify /\ [][NextIdentify]_vars

\* Some line of text starts with 'Model:' and goes on with 'mx' somewhere.
HasModelLineWithMx(text) ==
    \E i \in DOMAIN SplitLines(text) :
        /\ StartsWith(SplitLines(text)[i], Word.model)
        /\ Contains(SubSeq(SplitLines(text)[i], Len(Word.model) + 1,
                            Len(SplitLines(text)[i])), Word.mx)

\* No Cisco / Arista probe is among the operations of log.
NoCiscoProbe(log) ==
    \A i \in DOMAIN log : log[i].role \notin {"cisco_probe", "cisco_version"}

\* The step that collects the 'show version' output of the Juniper branch,
\* after a first probe answered without 'syntax error' in any letter case.
JuniperVersionCollected ==
    /\ ipc = "collect_version"
    /\ ipc' # "collect_version"
    /\ ~Contains(Lower(probe_output), Word.syntax_error)

\* C2 as stated: when the first probe's answer has no 'syntax error' and
\* the collected 'show version' output has a line that starts with 'Model:'
\* and whose value contains 'mx', identify_device_type returns 'juniper-mx'
\* and sends no Cisco / Arista probe.
C2_ModelMxLine ==
    [][(JuniperVersionCollected /\ HasModelLineWithMx(version_output'))
        => /\ ipc' = "returned"
           /\ device_type' = Name.juniper_mx
           /\ NoCiscoProbe(oplog')]_vars

\* C2 amended: when the first probe's answer has no 'syntax error' and, in
\* the collected 'show version' output, the first 'Model:' at a line start
\* that a word follows (after any whitespace) is followed by a word that
\* contains 'mx', identify_device_type returns 'juniper-mx' and sends no
\* Cisco / Arista probe.
C2_FirstModelWordMx ==
    [][(JuniperVersionCollected /\ Contains(ModelGroup(version_output'), Word.mx))
        => /\ ipc' = "returned"
           /\ device_type' = Name.juniper_mx
           /\ NoCiscoProbe(oplog')]_vars

\* A two-line output whose first 'Model:' word contains 'mx' was classified.
C2_Witness ==
    /\ ipc = "returned"
    /\ device_type = Name.juniper_mx
    /\ Len(SplitLines(version_output)) = 2
    /\ Contains(ModelGroup(version_output), Word.mx)
    /\ NoCiscoProbe(oplog)

-----------------------------------------------------------------------------
(* execute_commands(shell, commands, device_type), statement by statement. *)

\* The test without strip() and lower().
NeedsConfigMode_asTyped(cmds) ==
    \E i \in DOMAIN cmds :
        StartsWith(cmds[i], Word.set) \/ StartsWith(cmds[i], Word.conf)

\* any(cmd.strip().lower().startswith(('set', 'conf')) for cmd in commands)
NeedsConfigMode(cmds) ==
    \E i \in DOMAIN cmds :
        \/ StartsWith(Lower(Strip(cmds[i])), Word.set)
        \/ StartsWith(Lower(Strip(cmds[i])), Word.conf)

\* Where control goes when the loop over commands is at position i: the
\* next command, or the second test of the config-mode condition.
LoopHead(i) ==
    IF i <= Len(commands) THEN "send_command"
    ELSE IF NeedsConfigMode(commands) THEN "send_commit"
    ELSE "returned"

\* shell.settimeout(2); output_data = ''; shell.send(pagination_cmd + '\n')
ExSendPagination ==
    /\ epc = "send_pagination"
    /\ Send(get_pagination_command(device_type), "pagination")
    /\ output_data' = <<>>
    /\ epc' = "recv_pagination"
    /\ UNCHANGED <<device, chan, swallowed, exc, idVars, commands, cmd_i,
                   pushVars, notEngine>>

\* shell.recv(1024)  # Clear buffer; if any(...):
ExRecvPagination ==
    /\ epc = "recv_pagination"
    /\ Recv("pagination")
    /\ epc' = IF NeedsConfigMode(commands) THEN "send_config" ELSE LoopHead(1)
    /\ cmd_i' = 1
    /\ UNCHANGED <<device, chan, late, swallowed, exc, wire, idVars, commands,
                   output_data, pushVars, notEngine>>

\* The loop is entered right after the send, without the receive.
ExSendConfig_noRecv ==
    /\ epc = "send_config"
    /\ Send(get_config_mode_command(device_type), "config_enter")
    /\ epc' = LoopHead(1)
    /\ UNCHANGED <<device, chan, swallowed, exc, idVars, commands, cmd_i,
                   output_data, pushVars, notEngine>>

\* shell.send(config_cmd + '\n')
ExSendConfig ==
    /\ epc = "send_config"
    /\ Send(get_config_mode_command(device_type), "config_enter")
    /\ epc' = "recv_config"
    /\ UNCHANGED <<device, chan, swallowed, exc, idVars, commands, cmd_i,
                   output_data, pushVars, notEngine>>

\* shell.recv(1024)  # Clear buffer
ExRecvConfig ==
    /\ epc = "recv_config"
    /\ Recv("config_enter")
    /\ epc' = LoopHead(1)
    /\ UNCHANGED <<device, chan, late, swallowed, exc, wire, idVars, commands,
                   cmd_i, output_data, pushVars, notEngine>>

\* for command in commands: shell.send(command + '\n')
ExSendCommand ==
    /\ epc = "send_command"
    /\ Send(commands[cmd_i], "batch")
    /\ epc' = "collect_command"
    /\ UNCHANGED <<device, chan, swallowed, exc, idVars, commands, cmd_i,
                   output_data, pushVars, notEngine>>

\* output_data += get_command_output(shell)
ExCollectCommand ==
    /\ epc = "collect_command"
    /\ \E got \in Collectable :
        /\ Collect(got, "batch")
        /\ output_data' = output_data \o got
    /\ cmd_i' = cmd_i + 1
    /\ epc' = LoopHead(cmd_i + 1)
    /\ UNCHANGED <<device, chan, late, exc, wire, idVars, commands, pushVars,
                   notEngine>>

\* shell.send(commit_cmd + '\n')
ExSendCommit ==
    /\ epc = "send_commit"
    /\ Send(get_commit_command(device_type), "commit")
    /\ epc' = "collect_commit"
    /\ UNCHANGED <<device, chan, swallowed, exc, idVars, commands, cmd_i,
                   output_data, pushVars, notEngine>>

\* output_data += get_command_output(shell); return output_data
ExCollectCommit ==
    /\ epc = "collect_commit"
    /\ \E got \in Collectable :
        /\ Collect(got, "commit")
        /\ output_data' = output_data \o got
    /\ epc' = "returned"
    /\ UNCHANGED <<device, chan, late, exc, wire, idVars, commands, cmd_i,
                   pushVars, notEngine>>

\* A send or a receive of execute_commands raises: the exception leaves the
\* function.
ExRaise ==
    /\ \/ /\ epc \in {"send_pagination", "send_config", "send_command",
                      "send_commit"}
          /\ SendRaises
          /\ exc' = "Socket is closed"
       \/ /\ epc \in {"recv_pagination", "recv_config"}
          /\ RecvRaises
          /\ exc' = "timed out"
    /\ epc' = "raised"
    /\ UNCHANGED <<device, chan, late, oplog, swallowed, idVars, commands, cmd_i, output_data, pushVars,
                   wire, inbuf, notEngine>>

ExecuteStep ==
    \/ ExSendPagination
    \/ ExRecvPagination
    \/ ExSendConfig
    \/ ExRecvConfig
    \/ ExSendCommand
    \/ ExCollectCommand
    \/ ExSendCommit
    \/ ExCollectCommit
    \/ ExRaise

\* The batches execute_commands is called with, the classifications it is
\* given and the devices it talks to; the last one answers the pagination
\* command in two pieces and nothing else.
MaxBatch == 2
BatchCommands == {Cmd.set_ntp, Cmd.show_version, Cmd.conf_t_typed, Cmd.reset}
ExDeviceTypes == {Name.juniper_mx, Name.cisco_ios, Name.arista, Name.unknown}
ExDevices ==
    [banner : {<<>>},
     probe : {<<Said.probe_ok>>},
     version : {<<Said.hostname>>},
     termlen : {<<>>, <<Said.probe_ok>>},
     reply : {<<>>, <<Said.probe_ok>>}]
    \cup
    {[banner |-> <<>>, probe |-> <<Said.probe_ok>>, version |-> <<>>,
      termlen |-> <<Said.probe_ok, Said.prompt>>, reply |-> <<>>]}

InitExecute ==
    /\ device \in ExDevices
    /\ chan = "open"
    /\ late = MaxLate
    /\ oplog = <<>>
    /\ swallowed = FALSE
    /\ exc = "none"
    /\ IdlePush
    /\ ipc = "idle"
    /\ probe_output = <<>>
    /\ version_output = <<>>
    /\ device_type \in ExDeviceTypes
    /\ epc = "send_pagination"
    /\ commands \in SeqsUpTo(BatchCommands, MaxBatch)
    /\ cmd_i = 0
    /\ output_data = <<>>
    /\ pc = "execute"
    /\ now = 0
    /\ wire = <<>>
    /\ inbuf = <<>>
    /\ consumed = <<>>
    /\ cpc = "idle"
    /\ start_time = 0
    /\ wake = 0
    /\ output = <<>>
    /\ IdleProfile
    /\ IdleDiff

NextExecute ==
    \/ ExSendPagination
    \/ ExRecvPagination
    \/ ExSendConfig
    \/ ExRecvConfig
    \/ ExSendCommand
    \/ ExCollectCommand
    \/ ExSendCommit
    \/ ExCollectCommit
    \/ ExRaise
    \/ ShellDeliver
    \/ ShellCloses

SpecExecute == InitExecute /\ [][NextExecute]_vars

\* The commands sent so far, in order, and the roles they were sent in.
SentCmds == [i \in DOMAIN SelectSeq(oplog, LAMBDA o : o.op = "send") |->
                SelectSeq(oplog, LAMBDA o : o.op = "send")[i].cmd]
SentRoles == [i \in DOMAIN SelectSeq(oplog, LAMBDA o : o.op = "send") |->
                SelectSeq(oplog, LAMBDA o : o.op = "send")[i].role]

\* Some command of the batch, trimmed and lower-cased, begins with 'set' or
\* 'conf'.
BatchConfigures ==
    \E i \in DOMAIN commands :
        \E w \in {Word.set, Word.conf} :
            SubSeq(Lower(Strip(commands[i])), 1, Len(w)) = w

\* C6: a call of execute_commands that returns has sent, in this order: the
\* pagination command, the profile's config-enter command once if and only
\* if some command of the batch (trimmed, lower-cased) begins with 'set' or
\* 'conf', the commands of the batch, and the profile's commit/exit command
\* once under the same condition; a batch of only 'show version' gets
\* neither.
C6_ConfigModeAroundBatch ==
    epc = "returned" =>
        /\ SentCmds =
             <<get_pagination_command(device_type)>>
             \o (IF BatchConfigures
                 THEN <<get_config_mode_command(device_type)>> ELSE <<>>)
             \o commands
             \o (IF BatchConfigures
                 THEN <<get_commit_command(device_type)>> ELSE <<>>)
        /\ SentRoles =
             <<"pagination">>
             \o (IF BatchConfigures THEN <<"config_enter">> ELSE <<>>)
             \o [i \in DOMAIN commands |-> "batch"]
             \o (IF BatchConfigures THEN <<"commit">> ELSE <<>>)
        /\ commands = <<Cmd.show_version>> =>
             SentRoles = <<"pagination", "batch">>

\* A batch whose only configuring command needs trimming and lower-casing
\* to be seen went through, with output.
C6_Witness ==
    /\ epc = "returned"
    /\ commands = <<Cmd.show_version, Cmd.conf_t_typed>>
    /\ SentRoles = <<"pagination", "config_enter", "batch", "batch", "commit">>
    /\ output_data # <<>>

-----------------------------------------------------------------------------
(* config_push(hostname_list, username, password, config_commands,         *)
(* pre_commands, post_commands), statement by statement.  The report that  *)
(* compare_outputs writes goes to a file and is not part of the state.     *)
(* The devices answer in time here; answers that straggle are followed in  *)
(* SpecIdentify and SpecExecute.                                           *)

\* hostname = hostname.strip()
hostname == Strip(hostname_list[host_i])

\* results[host][key] = value on a defaultdict(dict)
SetKey(dict, host, key, value) ==
    IF host \in DOMAIN dict
    THEN [dict EXCEPT ![host] = (key :> value) @@ @]
    ELSE (host :> (key :> value)) @@ dict

\* The phases of a run, the batch of each and what follows each.
Phases == {"pre_check", "config", "post_check"}
BatchOf(phase) ==
    IF phase = "pre_check" THEN pre_commands
    ELSE IF phase = "config" THEN config_commands
    ELSE post_commands

\* The configuration is pushed last.
PhaseAfter_configLast(phase) ==
    IF phase = "pre_check" THEN "post_check"
    ELSE IF phase = "post_check" THEN "config"
    ELSE "compare"

PhaseAfter(phase) ==
    IF phase = "pre_check" THEN "config"
    ELSE IF phase = "config" THEN "post_check"
    ELSE "compare"

\* A handler that gives up on the hosts that remain (a break or a re-raise).
AfterFailure_abort(i) == "done"

\* for hostname in hostname_list: where control goes after the handler has
\* run for the host at position i ...
AfterFailure(i) == IF i < Len(hostname_list) THEN "connect" ELSE "done"

\* ... and after its try block has run to the end; then: return results
AfterSuccess(i) == IF i < Len(hostname_list) THEN "connect" ELSE "done"

\* The run of one host is over: its shell and its locals are dropped.
EndRun ==
    /\ device' = <<>>
    /\ chan' = "none"
    /\ late' = 0
    /\ oplog' = <<>>
    /\ swallowed' = FALSE
    /\ exc' = "none"
    /\ wire' = <<>>
    /\ inbuf' = <<>>
    /\ ipc' = "idle"
    /\ probe_output' = <<>>
    /\ version_output' = <<>>
    /\ device_type' = <<>>
    /\ epc' = "idle"
    /\ commands' = <<>>
    /\ cmd_i' = 0
    /\ output_data' = <<>>
    /\ host_i' = host_i + 1

\* client = paramiko.SSHClient(); client.connect(hostname, ...)
PushConnect ==
    /\ pc = "connect"
    /\ exc = "none"
    /\ attempts' = Append(attempts, hostname)
    /\ \/ pc' = "invoke_shell" /\ exc' = exc
       \/ pc' = pc /\ exc' = "connect failed"
    /\ UNCHANGED <<device, chan, late, oplog, swallowed, wire, inbuf, idVars,
                   exVars, hostname_list, host_i, pre_commands,
                   config_commands, post_commands, results, network,
                   unclosed, notEngine>>

\* shell = client.invoke_shell(); time.sleep(1);
\* device_type = identify_device_type(shell) is entered
PushInvokeShell ==
    /\ pc = "invoke_shell"
    /\ exc = "none"
    /\ \/ /\ pc' = "identify"
          /\ device' = network[hostname]
          /\ chan' = "open"
          /\ late' = 0
          /\ inbuf' = Tag(Flatten(network[hostname].banner), 0)
          /\ ipc' = "send_probe"
          /\ exc' = exc
       \/ /\ pc' = pc
          /\ exc' = "no shell"
          /\ UNCHANGED <<device, chan, late, inbuf, ipc>>
    /\ UNCHANGED <<oplog, swallowed, wire, probe_output, version_output,
                   device_type, exVars, hostname_list, host_i, pre_commands,
                   config_commands, post_commands, results, network,
                   attempts, unclosed, notEngine>>

\* The phases are given 'unknown' whatever identify_device_type returned.
PushIdentified_unclassified ==
    /\ pc = "identify"
    /\ ipc = "returned"
    /\ ipc' = "idle"
    /\ pc' = "pre_check"
    /\ epc' = "send_pagination"
    /\ commands' = pre_commands
    /\ device_type' = Name.unknown
    /\ UNCHANGED <<linkVars, wire, inbuf, probe_output, version_output,
                   cmd_i, output_data, hostname_list, host_i,
                   pre_commands, config_commands, post_commands, results,
                   network, attempts, unclosed, notEngine>>

\* identify_device_type has returned;
\* results[hostname]['pre_check'] = execute_commands(shell, pre_commands,
\* device_type) is entered
PushIdentified ==
    /\ pc = "identify"
    /\ ipc = "returned"
    /\ ipc' = "idle"
    /\ pc' = "pre_check"
    /\ epc' = "send_pagination"
    /\ commands' = pre_commands
    /\ UNCHANGED <<linkVars, wire, inbuf, probe_output, version_output,
                   device_type, cmd_i, output_data, hostname_list, host_i,
                   pre_commands, config_commands, post_commands, results,
                   network, attempts, unclosed, notEngine>>

\* execute_commands has returned: results[hostname][phase] = its result;
\* execute_commands is entered for the next phase, or compare_outputs is next
PushPhaseDone ==
    /\ pc \in Phases
    /\ epc = "returned"
    /\ results' = SetKey(results, hostname, pc, output_data)
    /\ pc' = PhaseAfter(pc)
    /\ IF PhaseAfter(pc) \in Phases
       THEN epc' = "send_pagination" /\ commands' = BatchOf(PhaseAfter(pc))
       ELSE epc' = "idle" /\ commands' = commands
    /\ UNCHANGED <<linkVars, wire, inbuf, idVars, cmd_i, output_data,
                   hostname_list, host_i, pre_commands, config_commands,
                   post_commands, network, attempts, unclosed, notEngine>>

\* report_file = compare_outputs(...): the report is written, or open()
\* raises
PushCompare ==
    /\ pc = "compare"
    /\ exc = "none"
    /\ \/ pc' = "close" /\ exc' = exc
       \/ pc' = pc /\ exc' = "report not written"
    /\ UNCHANGED <<device, chan, late, oplog, swallowed, wire, inbuf, idVars,
                   exVars, hostname_list, host_i, pre_commands,
                   config_commands, post_commands, results, network,
                   attempts, unclosed, notEngine>>

\* shell.close(); client.close(); the loop goes on
PushClose ==
    /\ pc = "close"
    /\ EndRun
    /\ pc' = AfterSuccess(host_i)
    /\ UNCHANGED <<hostname_list, pre_commands, config_commands,
                   post_commands, results, network, attempts, unclosed,
                   notEngine>>

\* except Exception as e: results[hostname]['error'] = str(e); the loop
\* goes on.  Nothing closes the connection.
PushExcept ==
    /\ pc \in {"connect", "invoke_shell", "identify", "compare"} \cup Phases
    /\ exc # "none"
    /\ results' = SetKey(results, hostname, "error", exc)
    /\ unclosed' = IF pc = "connect" THEN unclosed ELSE unclosed + 1
    /\ EndRun
    /\ pc' = AfterFailure(host_i)
    /\ UNCHANGED <<hostname_list, pre_commands, config_commands,
                   post_commands, network, attempts, notEngine>>

\* The host lists, the devices behind the names and the three batches
\* config_push is called with.
MaxHosts == 2
HostNames == {<<"r", "1">>, <<"r", "2", " ">>}
JunosLike ==
    [banner |-> <<Said.prompt>>, probe |-> <<Said.probe_ok>>,
     version |-> <<Said.model_mx>>, termlen |-> <<Said.probe_invalid>>,
     reply |-> <<Said.probe_ok>>]
IosLike ==
    [banner |-> <<>>, probe |-> <<Said.probe_syntax>>,
     version |-> <<Said.ios>>, termlen |-> <<Said.probe_ok>>,
     reply |-> <<Said.probe_ok>>]
Silent ==
    [banner |-> <<Said.prompt>>, probe |-> <<>>, version |-> <<>>,
     termlen |-> <<>>, reply |-> <<>>]
Networks ==
    {(<<"r", "1">> :> JunosLike) @@ (<<"r", "2">> :> IosLike),
     (<<"r", "1">> :> IosLike) @@ (<<"r", "2">> :> Silent),
     (<<"r", "1">> :> Silent) @@ (<<"r", "2">> :> JunosLike)}
PushBatches ==
    {<<<<Cmd.show_version>>, <<Cmd.set_ntp>>, <<Cmd.show_version>>>>,
     <<<<>>, <<Cmd.show_version>>, <<Cmd.reset>>>>,
     <<<<Cmd.reset, Cmd.show_version>>, <<Cmd.show_version, Cmd.set_ntp>>, <<>>>>}

InitPush ==
    /\ hostname_list \in SeqsUpTo(HostNames, MaxHosts)
    /\ network \in Networks
    /\ \E b \in PushBatches :
        /\ pre_commands = b[1]
        /\ config_commands = b[2]
        /\ post_commands = b[3]
    /\ results = <<>>
    /\ attempts = <<>>
    /\ unclosed = 0
    /\ host_i = 1
    /\ pc = IF hostname_list = <<>> THEN "done" ELSE "connect"
    /\ device = <<>>
    /\ chan = "none"
    /\ late = 0
    /\ oplog = <<>>
    /\ swallowed = FALSE
    /\ exc = "none"
    /\ ipc = "idle"
    /\ probe_output = <<>>
    /\ version_output = <<>>
    /\ device_type = <<>>
    /\ epc = "idle"
    /\ commands = <<>>
    /\ cmd_i = 0
    /\ output_data = <<>>
    /\ IdleProfile
    /\ IdleDiff
    /\ IdleCollect

NextPush ==
    \/ PushConnect
    \/ PushInvokeShell
    \/ PushIdentified
    \/ PushPhaseDone
    \/ PushCompare
    \/ PushClose
    \/ PushExcept
    \/ IdentifyStep
    \/ ExecuteStep
    \/ ShellCloses

SpecPush == InitPush /\ [][NextPush]_vars

\* The host names of the list, as config_push uses them.
Requested == [i \in DOMAIN hostname_list |-> Strip(hostname_list[i])]

\* C8: when config_push returns, a connection was attempted to every host of
\* the list, in order, whatever failed before; the results have an entry for
\* each requested host and for nothing else; and an entry without an error
\* marker has the pre_check, config and post_check transcripts.
C8_HostIsolation ==
    pc = "done" =>
        /\ attempts = Requested
        /\ DOMAIN results = Range(Requested)
        /\ \A h \in DOMAIN results :
            "error" \notin DOMAIN results[h] => DOMAIN results[h] = Phases

\* Of two hosts the first failed and the second went through.
C8_Witness ==
    /\ pc = "done"
    /\ Len(hostname_list) = 2
    /\ Requested[1] # Requested[2]
    /\ "error" \in DOMAIN results[Requested[1]]
    /\ DOMAIN results[Requested[2]] = Phases

\* C9: when config_push returns, the entry of a host whose run met a channel
\* failure (in connect, identify, pre-check, config or post-check) has the
\* key 'error' and none of 'pre_check', 'config', 'post_check'.
C9_ErrorWithoutTranscripts ==
    pc = "done" =>
        \A h \in DOMAIN results :
            ("error" \in DOMAIN results[h]
                /\ results[h]["error"] # "report not written")
            => DOMAIN results[h] = {"error"}

\* The operations made on the shell in one phase of the run under way.
PhaseOps(phase) == SelectSeq(oplog, LAMBDA o : o.phase = phase)

\* The commands execute_commands is to send for a batch.
ExpectedSends(batch) ==
    <<get_pagination_command(device_type)>>
    \o (IF NeedsConfigMode(batch)
        THEN <<get_config_mode_command(device_type)>> ELSE <<>>)
    \o batch
    \o (IF NeedsConfigMode(batch)
        THEN <<get_commit_command(device_type)>> ELSE <<>>)

\* Every command of the phase has been sent and the output of the last one
\* has been received.
PhaseComplete(phase) ==
    /\ [i \in DOMAIN SelectSeq(PhaseOps(phase), LAMBDA o : o.op = "send") |->
           SelectSeq(PhaseOps(phase), LAMBDA o : o.op = "send")[i].cmd]
         = ExpectedSends(BatchOf(phase))
    /\ PhaseOps(phase)[Len(PhaseOps(phase))].op # "send"

PhaseRank(phase) ==
    IF phase = "identify" THEN 0
    ELSE IF phase = "pre_check" THEN 1
    ELSE IF phase = "config" THEN 2
    ELSE 3

\* C10: in the run of each host the shell is used for the pre-check, then
\* for the config, then for the post-check phase: nothing of the config
\* phase is sent before the whole pre-check batch has been sent and its
\* output collected, nothing of the post-check phase before the whole config
\* batch (commit/exit included) has, and a run that reaches the report has
\* completed the three phases.
C10_PhaseOrder ==
    /\ \A i, j \in DOMAIN oplog :
        i < j => PhaseRank(oplog[i].phase) <= PhaseRank(oplog[j].phase)
    /\ PhaseOps("config") # <<>> => PhaseComplete("pre_check")
    /\ PhaseOps("post_check") # <<>> => PhaseComplete("config")
    /\ pc \in {"compare", "close"} =>
        /\ \A phase \in Phases : PhaseComplete(phase)
        /\ Phases \subseteq DOMAIN results[hostname]

\* A run with three different phases (the config phase with its commit) has
\* reached the end of its try block.
C10_Witness ==
    /\ pc = "close"
    /\ config_commands = <<Cmd.set_ntp>>
    /\ Len(PhaseOps("pre_check")) = 4
    /\ Len(PhaseOps("config")) = 8
    /\ Len(PhaseOps("post_check")) = 4

-----------------------------------------------------------------------------
(* The classification of a run.                                            *)

\* What a command is to identify_device_type, and to execute_commands.
IdRoles == {"probe", "version", "cisco_probe", "cisco_version"}
ExRoles == {"pagination", "config_enter", "batch", "commit"}

\* The sends of log made in role.
SendsAs(log, role) == SelectSeq(log, LAMBDA o : o.op = "send" /\ o.role = role)

\* The profile commands among the sends of log are those of dtype.
DialectOf(log, dtype) ==
    \A i \in DOMAIN log :
        log[i].op = "send" =>
            /\ log[i].role = "pagination" => log[i].cmd = get_pagination_command(dtype)
            /\ log[i].role = "config_enter" => log[i].cmd = get_config_mode_command(dtype)
            /\ log[i].role = "commit" => log[i].cmd = get_commit_command(dtype)

\* C11: in the run of one host identify_device_type is entered once, before
\* any phase: its first probe is sent at most once, and exactly once when a
\* phase has started; all its operations come before those of the phases;
\* the classification changes only when identify_device_type returns (and
\* when the run ends); and the pagination, config-enter and commit commands
\* of all three phases are those of that classification.
C11_ClassifiedOnce ==
    [][/\ Len(SendsAs(oplog', "probe")) <= 1
       /\ \A i \in DOMAIN oplog' :
            /\ oplog'[i].role \in IdRoles <=> oplog'[i].phase = "identify"
            /\ oplog'[i].role \in ExRoles <=> oplog'[i].phase \in Phases
            /\ oplog'[i].phase = "identify" =>
                 \A j \in 1 .. i : oplog'[j].phase = "identify"
       /\ pc' \in Phases \cup {"compare", "close"} =>
            /\ Len(SendsAs(oplog', "probe")) = 1
            /\ device_type' # <<>>
       /\ device_type' # device_type =>
            \/ pc = "identify" /\ ipc # "returned" /\ ipc' = "returned"
            \/ pc' \in {"connect", "done"}
       /\ DialectOf(oplog', device_type')]_vars

\* A device classified by the Cisco / Arista part went through the three
\* phases, the config phase with config mode and commit.
C11_Witness ==
    /\ pc = "close"
    /\ device_type \notin {<<>>, Name.unknown, Name.juniper_mx}
    /\ Len(SendsAs(oplog, "probe")) = 1
    /\ Len(SendsAs(oplog, "pagination")) = 3
    /\ Len(SendsAs(oplog, "commit")) = 1

\* The vendor a classification belongs to, by its name.
VendorOf(dtype) ==
    IF StartsWith(dtype, Name.juniper) THEN Name.juniper
    ELSE IF StartsWith(dtype, Name.cisco_ios) THEN Name.cisco_ios
    ELSE IF StartsWith(dtype, Name.cisco_nxos) THEN Name.cisco_nxos
    ELSE IF StartsWith(dtype, Name.arista) THEN Name.arista
    ELSE dtype

\* C12: the pagination, config-enter and commit commands execute_commands
\* sends for a classification identify_device_type returned are the entries
\* of that classification's vendor: for every 'juniper-...' classification
\* 'set cli screen-length 0', 'configure' and 'commit and-quit', and
\* likewise for the Cisco IOS, NX-OS and Arista classifications.
C12_VendorDialect ==
    DialectOf(oplog, VendorOf(device_type))

-----------------------------------------------------------------------------
(* The branches of identify_device_type.                                   *)

JuniperNames == {Name.juniper_mx, Name.juniper_ex, Name.juniper_srx,
                 Name.juniper_qfx, Name.juniper_unknown}

\* The first probe has been answered, without 'syntax error' in any letter
\* case.
ProbeAccepted ==
    /\ ipc \notin {"idle", "send_probe", "recv_probe"}
    /\ \E i \in DOMAIN oplog : oplog[i].op = "recv" /\ oplog[i].role = "probe"
    /\ ~Contains(Lower(probe_output), Word.syntax_error)

\* C13: once the first probe has been answered without a syntax-error
\* indicator, identify_device_type sends no Cisco / Arista probe, and what
\* it returns is one of the Juniper classifications, 'juniper-unknown'
\* when the 'show version' output has no 'Model:' at a line start.
C13_JuniperBranchReturnsJuniper ==
    ProbeAccepted =>
        /\ NoCiscoProbe(oplog)
        /\ ipc = "returned" =>
             /\ device_type \in JuniperNames
             /\ ModelGroup(version_output) = <<>> =>
                  device_type = Name.juniper_unknown

\* C14: when the receive that follows the first probe ends without any
\* output (an empty response, or nothing within the timeout),
\* identify_device_type goes on to the Cisco / Arista probe: it neither
\* takes the device for a Juniper nor raises.
C14_SilentProbeFallsThrough ==
    [][(ipc = "recv_probe" /\ ipc' # ipc /\ probe_output' = <<>>)
        => ipc' = "send_terminal_length"]_vars

\* A text is of the IOS, of the NX-OS, of the Arista family.
IosFamily(text) ==
    SearchIgnoreCase(text, Word.cisco_ios) \/ SearchIgnoreCase(text, Word.ios_software)
NxosFamily(text) ==
    SearchIgnoreCase(text, Word.nx_os) \/ SearchIgnoreCase(text, Word.nexus)
AristaFamily(text) == SearchIgnoreCase(text, Name.arista)

\* The first probe was answered with 'syntax error' (in any letter case)
\* and identify_device_type has returned.
ReturnedAfterSyntaxError ==
    /\ ipc = "returned"
    /\ Contains(Lower(probe_output), Word.syntax_error)

\* C15: after a first probe answered with a syntax error, what
\* identify_device_type returns follows the 'show version' output with the
\* priority IOS, NX-OS, Arista: an IOS output gets 'cisco-ios-asr',
\* '-isr', '-csr', '-catalyst' by the first of ASR<digits>, ISR<digits>,
\* CSR<digits>, C<digits> it has, and 'cisco-ios' if it has none; an output
\* that is not IOS but NX-OS gets an NX-OS name; one that is neither but
\* Arista gets an Arista name; and 'unknown' is returned exactly when the
\* output is of none of the three families.
C15_CiscoAristaPriority ==
    ReturnedAfterSyntaxError =>
        /\ IosFamily(version_output) =>
            /\ SearchThenDigit(version_output, Word.asr) =>
                 device_type = Name.cisco_ios_asr
            /\ (~SearchThenDigit(version_output, Word.asr)
                 /\ SearchThenDigit(version_output, Word.isr)) =>
                 device_type = Name.cisco_ios_isr
            /\ (~SearchThenDigit(version_output, Word.asr)
                 /\ ~SearchThenDigit(version_output, Word.isr)
                 /\ SearchThenDigit(version_output, Word.csr)) =>
                 device_type = Name.cisco_ios_csr
            /\ (~SearchThenDigit(version_output, Word.asr)
                 /\ ~SearchThenDigit(version_output, Word.isr)
                 /\ ~SearchThenDigit(version_output, Word.csr)) =>
                 device_type = IF SearchThenDigit(version_output, Word.c)
                               THEN Name.cisco_ios_catalyst ELSE Name.cisco_ios
        /\ (~IosFamily(version_output) /\ NxosFamily(version_output)) =>
             device_type \in {Name.cisco_nxos, Name.cisco_nxos_unknown}
        /\ (~IosFamily(version_output) /\ ~NxosFamily(version_output)
             /\ AristaFamily(version_output)) =>
             device_type \in {Name.arista, Name.arista_dcs}
        /\ device_type = Name.unknown <=>
             ~(IosFamily(version_output) \/ NxosFamily(version_output)
               \/ AristaFamily(version_output))

\* An output of the NX-OS and of the Arista family was classified as NX-OS.
C15_Witness ==
    /\ ReturnedAfterSyntaxError
    /\ ~IosFamily(version_output)
    /\ NxosFamily(version_output)
    /\ AristaFamily(version_output)
    /\ device_type = Name.cisco_nxos

-----------------------------------------------------------------------------
(* The order of the operations on one channel.                             *)

\* The commands of seq, in order.
CmdsOf(seq) == [i \in DOMAIN seq |-> seq[i].cmd]

\* s is an initial part of t.
IsPrefix(s, t) == Len(s) <= Len(t) /\ s = SubSeq(t, 1, Len(s))

\* The phases of the run under way that are over.
PhaseOver(phase) ==
    \/ PhaseRank(phase) < PhaseRank(pc)
    \/ pc = phase /\ epc = "returned"

\* C16: on the channel of a run no send follows a send: after each send of
\* identify_device_type and of execute_commands comes a receive or a
\* collection for the command sent, before anything else; and the
\* commands of a batch sent so far in a phase are an initial part of the
\* caller's batch, each sent once and in the caller's order, the whole
\* batch when the phase is over.
C16_SequentialSends ==
    /\ \A i \in DOMAIN oplog :
        (oplog[i].op = "send" /\ i < Len(oplog)) =>
            /\ oplog[i + 1].op \in {"recv", "collect"}
            /\ oplog[i + 1].role = oplog[i].role
            /\ oplog[i + 1].phase = oplog[i].phase
    /\ \A phase \in Phases :
        /\ IsPrefix(CmdsOf(SendsAs(PhaseOps(phase), "batch")), BatchOf(phase))
        /\ (pc \in Phases \cup {"compare", "close"} /\ PhaseOver(phase)) =>
             CmdsOf(SendsAs(PhaseOps(phase), "batch")) = BatchOf(phase)

\* A run whose pre-check and config batches have two different commands
\* each has reached the end of its try block.
C16_Witness ==
    /\ pc = "close"
    /\ Len(config_commands) = 2
    /\ config_commands[1] # config_commands[2]
    /\ CmdsOf(SendsAs(PhaseOps("config"), "batch")) = config_commands
    /\ CmdsOf(SendsAs(PhaseOps("pre_check"), "batch")) = pre_commands
    /\ Len(SendsAs(oplog, "config_enter")) = 1
    /\ Len(SelectSeq(oplog, LAMBDA o : o.op = "collect")) >= 6

-----------------------------------------------------------------------------
(* What the transcript of execute_commands is made of.                     *)

\* The collections of execute_commands whose result goes to the transcript.
TranscriptOps == SelectSeq(oplog, LAMBDA o : o.op = "collect" /\ o.role \in {"batch", "commit"})

\* The transcript is what those collections read, decoded.
TranscriptOf(ops) == Flatten([i \in DOMAIN ops |-> Chars(Decode(ops[i].data))])

\* C17: the transcript of execute_commands is made of what its collections
\* after batch and commit commands read, and no byte of it was written by
\* the device in answer to the pagination or to the config-enter command,
\* whenever the answers arrive.
C17_ProfileOutputDiscarded ==
    epc \notin {"idle", "send_pagination"} =>
        /\ output_data = TranscriptOf(TranscriptOps)
        /\ \A i \in DOMAIN TranscriptOps :
            \A b \in DOMAIN TranscriptOps[i].data :
                \/ TranscriptOps[i].data[b].src = 0
                \/ oplog[TranscriptOps[i].data[b].src].role
                     \notin {"pagination", "config_enter"}

\* The device has written nothing and writes nothing in answer to any
\* command execute_commands sends for the batch.
NeverEmits ==
    /\ device.banner = <<>>
    /\ Answer(get_pagination_command(device_type)) = <<>>
    /\ Answer(get_config_mode_command(device_type)) = <<>>
    /\ Answer(get_commit_command(device_type)) = <<>>
    /\ \A i \in DOMAIN commands : Answer(commands[i]) = <<>>

\* C18: on an open channel whose device never emits anything,
\* execute_commands does not raise, and when it returns it has sent every
\* command of the batch and its transcript is empty.
C18_SilenceIsNotAnError ==
    (epc # "idle" /\ NeverEmits /\ chan = "open") =>
        /\ epc # "raised"
        /\ epc = "returned" =>
             /\ CmdsOf(SendsAs(oplog, "batch")) = commands
             /\ output_data = <<>>

-----------------------------------------------------------------------------
(* Channel errors and the end of a run.                                    *)

\* The sends of log.
AllSends(log) == SelectSeq(log, LAMBDA o : o.op = "send")

\* The run of the host under way ends with this step.
RunEnds == host_i' # host_i

\* C19: a run of config_push in which a receive failed inside
\* get_command_output ends with an error marker in the host's entry, and
\* nothing is sent on the channel after the failure.
C19_ChannelErrorSurfaced ==
    [][/\ (swallowed /\ RunEnds) => "error" \in DOMAIN results'[hostname]
       /\ swallowed => \/ AllSends(oplog') = AllSends(oplog)
                        \/ oplog' = <<>>]_vars

\* C20: the run of a host whose shell was opened ends by shell.close() and
\* client.close(), after a failure as well as after a successful run: when
\* config_push turns to the next host (or returns), no connection has been
\* left open.
C20_ConnectionsClosed ==
    [][(RunEnds /\ chan # "none") => (pc = "close" /\ unclosed' = 0)]_vars

====
